---------------------------- MODULE Spec2Model ----------------------------
(***************************************************************************)
(* Saga orchestrator (src/orchestrator/main.go) together with the three    *)
(* participant services it calls: Order (src/README.md), Payment           *)
(* (src/unnamed/part_001) and Shipping (src/unnamed/part_000).             *)
(*                                                                         *)
(* Conventions.                                                            *)
(*   - A Go string built by fmt.Sprintf is the sequence of its pieces: the *)
(*     pieces of the format with the argument in the place of the verb.    *)
(*     The empty string in such a field is the empty sequence.             *)
(*   - A time.Time is TimeZero (the zero value) or TimeNow (a value of     *)
(*     time.Now()).                                                        *)
(*   - mu is the orchestrator's sync.Mutex: Free or the holder.  A locked  *)
(*     section is two steps: the acquisition and the body with the unlock. *)
(*   - An http.Post is two steps: the send, in which the participant's     *)
(*     handler runs and the network decides what comes back, and the       *)
(*     return, in which the caller reads what came back.                   *)
(***************************************************************************)
EXTENDS Integers, Sequences, FiniteSets, TLC

\* Number of sagas the orchestrator accepts in one run.
MaxSagas == 2

\* Number of sagas in a run that follows one saga through every network fault.
MaxSoloSagas == 1

\* Length of the ledgers updateStepStatus is applied to on its own.
MaxLedger == 3

VARIABLES
    transactions,   \* main.go:102  map[string]Transaction
    nextID,         \* main.go:104
    mu,             \* main.go:103
    tasks,          \* one executeSaga goroutine per transaction id
    startResp,      \* last response of POST /create-order-saga
    statusReq,      \* the transactionStatusHandler goroutine (main.go:179-210)
    orders,         \* Order service: map[string]Order, as the sequence ORD-1..
    payments,       \* Payment service: map[string]Payment, as PAY-1..
    shippings       \* Shipping service: map[string]Shipping, as SHP-1..

vars == <<transactions, nextID, mu, tasks, startResp, statusReq, orders, payments,
          shippings>>

participants == <<orders, payments, shippings>>

-----------------------------------------------------------------------------
\* Strings and times

EmptyStr == <<>>

\* fmt.Sprintf with one verb: the format is the sequence of its pieces, the
\* verb one of them, and the result has the argument in the verb's place.
Sprintf(format, arg) ==
    [i \in 1..Len(format) |-> IF format[i] \in {"%v", "%d"} THEN arg ELSE format[i]]

StartsWith(s, prefix) ==
    /\ Len(s) >= Len(prefix)
    /\ SubSeq(s, 1, Len(prefix)) = prefix

Mentions(s, piece) == \E i \in 1..Len(s) : s[i] = piece

TimeZero == "zero"

TimeNow == "now"

TransactionStatusPending == "PENDING"

TransactionStatusCompleted == "COMPLETED"

TransactionStatusFailed == "FAILED"

OrderStatusPending == "PENDING"

OrderStatusCancelled == "CANCELLED"

PaymentStatusSuccess == "SUCCESS"

PaymentStatusFailed == "FAILED"

PaymentStatusRefunded == "REFUNDED"

ShippingStatusPending == "PENDING"

ShippingStatusCancelled == "CANCELLED"

Free == <<>>

-----------------------------------------------------------------------------
\* Requests to POST /create-order-saga

CustomerIDs == {"", "CUST-1"}

Amounts == {-5, 0, 100}

Addresses == {"", "Jl. Merdeka 1"}

Requests == [CustomerID : CustomerIDs, Amount : Amounts, Address : Addresses]

\* ValidateRequest turning down negative amounts only.
ValidateRequestNegativeOnly(req) ==
    IF req.CustomerID = "" THEN <<"Customer ID is required">>
    ELSE IF req.Amount < 0 THEN <<"Amount must be greater than zero">>
    ELSE IF req.Address = "" THEN <<"Shipping address is required">>
    ELSE EmptyStr

\* main.go:131-143: the validation of createOrderSagaHandler, in its order.
\* The result is the text of the http.Error, or EmptyStr when the request passes.
ValidateRequest(req) ==
    IF req.CustomerID = "" THEN <<"Customer ID is required">>
    ELSE IF req.Amount <= 0 THEN <<"Amount must be greater than zero">>
    ELSE IF req.Address = "" THEN <<"Shipping address is required">>
    ELSE EmptyStr

StatusBadRequest == 400

StatusAccepted == 202

StatusOK == 200

StatusCreated == 201

StatusNotFound == 404


-----------------------------------------------------------------------------
\* Transaction store and step ledger (orchestrator)

TrxID(n) == Sprintf(<<"TRX-", "%d">>, n)

\* main.go:150-158: the Transaction createOrderSagaHandler stores and returns.
NewTransaction(id, req) ==
    [ID |-> id, OrderID |-> EmptyStr, CustomerID |-> req.CustomerID,
     Amount |-> req.Amount, Address |-> req.Address,
     Status |-> TransactionStatusPending, CreatedAt |-> TimeNow,
     CompletedAt |-> TimeZero, FailureReason |-> EmptyStr, Steps |-> <<>>]

\* The zero value of Transaction: what a read of a missing map key yields.
ZeroTransaction ==
    [ID |-> EmptyStr, OrderID |-> EmptyStr, CustomerID |-> "", Amount |-> 0,
     Address |-> "", Status |-> "", CreatedAt |-> TimeZero,
     CompletedAt |-> TimeZero, FailureReason |-> EmptyStr, Steps |-> <<>>]

\* main.go:495-499
NewStep(stepName) ==
    [Name |-> stepName, Status |-> TransactionStatusPending,
     StartedAt |-> TimeNow, EndedAt |-> TimeZero, Error |-> ""]

\* MapSet forgetting the other keys.
MapSetOnly(m, k, v) == [x \in {k} |-> v]

\* m[k] = v on a Go map.
MapSet(m, k, v) == [x \in DOMAIN m \cup {k} |-> IF x = k THEN v ELSE m[x]]

\* addStep appending to the ledger of the first transaction.
addStepFirst(txs, transactionID, stepName) ==
    IF transactionID \notin DOMAIN txs THEN txs
    ELSE [txs EXCEPT ![<<"TRX-", 1>>].Steps = Append(@, NewStep(stepName))]

\* main.go:486-504
addStep(txs, transactionID, stepName) ==
    IF transactionID \notin DOMAIN txs THEN txs
    ELSE [txs EXCEPT ![transactionID].Steps = Append(@, NewStep(stepName))]

\* ConcludeStep leaving the status of a successful step as it is.
ConcludeStepNoStatus(step, success, errorMsg) ==
    IF success
    THEN [step EXCEPT !.EndedAt = TimeNow]
    ELSE [step EXCEPT !.Status = TransactionStatusFailed, !.Error = errorMsg,
                      !.EndedAt = TimeNow]

\* main.go:517-523: the writes to the step found.
ConcludeStep(step, success, errorMsg) ==
    IF success
    THEN [step EXCEPT !.Status = TransactionStatusCompleted, !.EndedAt = TimeNow]
    ELSE [step EXCEPT !.Status = TransactionStatusFailed, !.Error = errorMsg,
                      !.EndedAt = TimeNow]

\* main.go:515-516: the step the loop stops at, 0 when it runs to the end.
FindStep(steps, stepName) ==
    IF \E i \in 1..Len(steps) : steps[i].Name = stepName
    THEN CHOOSE i \in 1..Len(steps) :
            /\ steps[i].Name = stepName
            /\ \A j \in 1..(i - 1) : steps[j].Name # stepName
    ELSE 0

\* updateStepStatus concluding the steps that succeeded only.
updateStepStatusSuccessOnly(txs, transactionID, stepName, success, errorMsg) ==
    IF transactionID \notin DOMAIN txs \/ ~success THEN txs
    ELSE LET i == FindStep(txs[transactionID].Steps, stepName)
         IN  IF i = 0 THEN txs
             ELSE [txs EXCEPT ![transactionID].Steps[i] =
                                  ConcludeStep(@, success, errorMsg)]

\* main.go:506-530
updateStepStatus(txs, transactionID, stepName, success, errorMsg) ==
    IF transactionID \notin DOMAIN txs THEN txs
    ELSE LET i == FindStep(txs[transactionID].Steps, stepName)
         IN  IF i = 0 THEN txs
             ELSE [txs EXCEPT ![transactionID].Steps[i] =
                                  ConcludeStep(@, success, errorMsg)]

\* updateTransactionStatus without the failure reason.
updateTransactionStatusNoReason(txs, transactionID, status, failureReason) ==
    IF transactionID \notin DOMAIN txs THEN txs
    ELSE IF status \in {TransactionStatusCompleted, TransactionStatusFailed}
         THEN [txs EXCEPT ![transactionID].Status = status,
                          ![transactionID].CompletedAt = TimeNow]
    ELSE [txs EXCEPT ![transactionID].Status = status]

\* updateTransactionStatus without the completion time of a failure.
updateTransactionStatusNoCompletedAt(txs, transactionID, status, failureReason) ==
    IF transactionID \notin DOMAIN txs THEN txs
    ELSE IF status = TransactionStatusCompleted
         THEN [txs EXCEPT ![transactionID].Status = status,
                          ![transactionID].CompletedAt = TimeNow]
    ELSE IF status = TransactionStatusFailed
         THEN [txs EXCEPT ![transactionID].Status = status,
                          ![transactionID].FailureReason = failureReason]
    ELSE [txs EXCEPT ![transactionID].Status = status]

\* main.go:532-551
updateTransactionStatus(txs, transactionID, status, failureReason) ==
    IF transactionID \notin DOMAIN txs THEN txs
    ELSE IF status = TransactionStatusCompleted
         THEN [txs EXCEPT ![transactionID].Status = status,
                          ![transactionID].CompletedAt = TimeNow]
    ELSE IF status = TransactionStatusFailed
         THEN [txs EXCEPT ![transactionID].Status = status,
                          ![transactionID].FailureReason = failureReason,
                          ![transactionID].CompletedAt = TimeNow]
    ELSE [txs EXCEPT ![transactionID].Status = status]

\* setOrderID storing the Transaction back as it was read.
setOrderIDNone(txs, transactionID, orderID) ==
    LET transaction == IF transactionID \in DOMAIN txs THEN txs[transactionID]
                       ELSE ZeroTransaction
    IN  MapSet(txs, transactionID, transaction)

\* main.go:221-225
setOrderID(txs, transactionID, orderID) ==
    LET transaction == IF transactionID \in DOMAIN txs THEN txs[transactionID]
                       ELSE ZeroTransaction
    IN  MapSet(txs, transactionID, [transaction EXCEPT !.OrderID = orderID])

-----------------------------------------------------------------------------
\* The []Step of a Transaction in memory.  A Transaction value holds its Steps as
\* a slice: a pointer to an array, a length and a capacity.  Copying the
\* Transaction (main.go:194, 490, 510) copies the three and not the array.

\* The capacity append (main.go:500) gives a slice that has no room left: twice
\* the old one, or the length needed when that is more (a Step takes 96 bytes, and
\* 96, 192, 384 and 768 bytes are allocation sizes, so nothing is rounded up).
growslice(oldCap, newLen) ==
    IF newLen > 2 * oldCap THEN newLen ELSE 2 * oldCap

\* The capacity of Steps after n appends to the []Step{} of main.go:157.
RECURSIVE SliceCap(_)
SliceCap(n) ==
    IF n = 0 THEN 0
    ELSE LET c == SliceCap(n - 1)
         IN  IF n <= c THEN c ELSE growslice(c, n)

\* What an unsynchronised read of a Step finds while main.go:517-523 writes it:
\* each field written is read as it was or as it has become.
RacyReads(old, new) ==
    {[Name |-> old.Name, Status |-> s, StartedAt |-> old.StartedAt,
      EndedAt |-> e, Error |-> m]
        : s \in {old.Status, new.Status}, e \in {old.EndedAt, new.EndedAt},
          m \in {old.Error, new.Error}}

\* The array a reader holds, after the Steps it shares the array with went from
\* old to new under the reader's eyes.
RacedArrays(array, old, new) ==
    IF \E i \in 1..Len(array) : old[i] # new[i]
    THEN LET i == CHOOSE j \in 1..Len(array) : old[j] # new[j]
         IN  {[array EXCEPT ![i] = step] : step \in RacyReads(old[i], new[i])}
    ELSE {array}

\* The handler q of a status request after the stored Transaction t went from
\* txs[t] to newTxs[t] by writes to its Steps in place: it sees them when it is
\* encoding a copy of t whose Steps still point to the array of the stored ones,
\* that is when append has not moved them since the copy was made.
Raced(q, t, txs, newTxs) ==
    IF /\ q.at = "Encode"
       /\ q.id = t
       /\ t \in DOMAIN txs
       /\ q.cap = SliceCap(Len(txs[t].Steps))
    THEN {[q EXCEPT !.array = a]
            : a \in RacedArrays(q.array, txs[t].Steps, newTxs[t].Steps)}
    ELSE {q}

-----------------------------------------------------------------------------
\* HTTP responses

\* A JSON response envelope written with json.NewEncoder(w).Encode(resp).
JsonBody(code, success, message, id, status) ==
    [code |-> code, json |-> TRUE, Success |-> success, Message |-> message,
     ID |-> id, Status |-> status]

\* http.Error(w, text, code): a plain-text body.
HttpError(text, code) ==
    [code |-> code, json |-> FALSE, Success |-> FALSE, Message |-> text,
     ID |-> EmptyStr, Status |-> ""]

-----------------------------------------------------------------------------
\* Order service (src/README.md:89-277)

\* OrdID giving every order the first id.
OrdIDSame(n) == Sprintf(<<"ORD-", "%d">>, 1)

\* README.md:161
OrdID(n) == Sprintf(<<"ORD-", "%d">>, n)

\* README.md:148-193.  The set of possible (state, response) results.
createOrderHandler(ords, req) ==
    LET orderID == OrdID(Len(ords) + 1)
        order == [ID |-> orderID, CustomerID |-> req.CustomerID,
                  Amount |-> req.Amount, Status |-> OrderStatusPending]
    IN  {[state |-> Append(ords, order),
          resp |-> JsonBody(StatusCreated, TRUE, "Order created successfully",
                            orderID, OrderStatusPending)]}

\* README.md:195-232
cancelOrderHandler(ords, req) ==
    IF ~\E i \in 1..Len(ords) : ords[i].ID = req.OrderID
    THEN {[state |-> ords, resp |-> HttpError("Order not found", StatusNotFound)]}
    ELSE {[state |-> [ords EXCEPT ![i].Status = OrderStatusCancelled],
           resp |-> JsonBody(StatusOK, TRUE, "Order cancelled successfully",
                             req.OrderID, OrderStatusCancelled)]
          : i \in {j \in 1..Len(ords) : ords[j].ID = req.OrderID}}

-----------------------------------------------------------------------------
\* Payment service (src/unnamed/part_001)

PayID(n) == Sprintf(<<"PAY-", "%d">>, n)

\* part_001:207-209
simulatePaymentProcessing(amount) == TRUE

\* part_001:52-112
processPaymentHandler(pays, req) ==
    IF req.OrderID = EmptyStr
    THEN {[state |-> pays, resp |-> HttpError("Order ID is required", StatusBadRequest)]}
    ELSE IF req.Amount <= 0
    THEN {[state |-> pays,
           resp |-> HttpError("Amount must be greater than zero", StatusBadRequest)]}
    ELSE LET paymentSuccess == simulatePaymentProcessing(req.Amount)
             paymentID == PayID(Len(pays) + 1)
             status == IF paymentSuccess THEN PaymentStatusSuccess
                       ELSE PaymentStatusFailed
             payment == [ID |-> paymentID, OrderID |-> req.OrderID,
                         Amount |-> req.Amount, Status |-> status]
         IN  {[state |-> Append(pays, payment),
               resp |-> IF paymentSuccess
                        THEN JsonBody(StatusOK, TRUE, "Payment processed successfully",
                                      paymentID, status)
                        ELSE JsonBody(StatusBadRequest, FALSE,
                                      "Payment processing failed", paymentID, status)]}

\* part_001:114-164.  The map is ranged over in no fixed order: any match.
refundPaymentHandler(pays, req) ==
    LET found == {i \in 1..Len(pays) : /\ pays[i].OrderID = req.OrderID
                                       /\ pays[i].Status = PaymentStatusSuccess}
    IN  IF found = {}
        THEN {[state |-> pays,
               resp |-> HttpError("No successful payment found for the order",
                                  StatusNotFound)]}
        ELSE {[state |-> [pays EXCEPT ![i].Status = PaymentStatusRefunded],
               resp |-> JsonBody(StatusOK, TRUE, "Payment refunded successfully",
                                 pays[i].ID, PaymentStatusRefunded)]
              : i \in found}

-----------------------------------------------------------------------------
\* Shipping service (src/unnamed/part_000)

ShpID(n) == Sprintf(<<"SHP-", "%d">>, n)

\* part_000:207-209
simulateShippingProcess == TRUE

\* part_000:52-112
startShippingHandler(ships, req) ==
    IF req.OrderID = EmptyStr
    THEN {[state |-> ships, resp |-> HttpError("Order ID is required", StatusBadRequest)]}
    ELSE IF req.Address = ""
    THEN {[state |-> ships,
           resp |-> HttpError("Shipping address is required", StatusBadRequest)]}
    ELSE LET shippingSuccess == simulateShippingProcess
             shippingID == ShpID(Len(ships) + 1)
             status == IF shippingSuccess THEN ShippingStatusPending
                       ELSE ShippingStatusCancelled
             shipping == [ID |-> shippingID, OrderID |-> req.OrderID,
                          Address |-> req.Address, Status |-> status]
         IN  {[state |-> Append(ships, shipping),
               resp |-> IF shippingSuccess
                        THEN JsonBody(StatusOK, TRUE, "Shipping initiated successfully",
                                      shippingID, status)
                        ELSE JsonBody(StatusBadRequest, FALSE,
                                      "Failed to initiate shipping", shippingID, status)]}

-----------------------------------------------------------------------------
\* The network between the orchestrator and a participant

\* What http.Post and the read of the body give the caller.
\*   err      : the error of http.Post, "" when a response arrived
\*   readable : ioutil.ReadAll succeeds
\*   body     : the body read
ErrTransport == "Post: connection error"

ErrRead == "unexpected EOF"

ErrParse == "invalid character"

NoBody == HttpError("", 0)

NoReply == [err |-> "", readable |-> FALSE, body |-> NoBody]

\* The request never reaches the participant.
Refused == [err |-> ErrTransport, readable |-> FALSE, body |-> NoBody]

\* What the caller gets of a response the participant wrote.
Transit(net, resp) ==
    CASE net = "lost"       -> [err |-> ErrTransport, readable |-> FALSE, body |-> NoBody]
      [] net = "unreadable" -> [err |-> "", readable |-> FALSE, body |-> NoBody]
      [] net = "garbled"    -> [err |-> "", readable |-> TRUE,
                                body |-> HttpError("garbled", resp.code)]
      [] net = "delivered"  -> [err |-> "", readable |-> TRUE, body |-> resp]

\* What can become of a call: the request is refused, or the participant
\* handles it and its response is lost, cut short, garbled or delivered.
AllFaults == {"refused", "lost", "unreadable", "garbled", "delivered"}

\* The network at its simplest: a call is refused or its response delivered.
FewFaults == {"refused", "delivered"}

\* The replies a call can get and the participant state each leaves, for a
\* handler's set of (state, response) results, on a network of the given faults.
Exchange(state, results, faults) ==
    {[state |-> state, reply |-> Refused] : f \in faults \cap {"refused"}}
    \cup {[state |-> r.state, reply |-> Transit(net, r.resp)]
          : r \in results, net \in faults \ {"refused"}}

-----------------------------------------------------------------------------
\* Participant calls of the orchestrator: what the caller makes of the reply

\* main.go:268-299, 318-349, 368-399: the outcome of a forward call.
ForwardResult(reply) ==
    IF reply.err # "" THEN [success |-> FALSE, errorMsg |-> reply.err]
    ELSE IF ~reply.readable THEN [success |-> FALSE, errorMsg |-> ErrRead]
    ELSE IF ~reply.body.json THEN [success |-> FALSE, errorMsg |-> ErrParse]
    ELSE IF ~reply.body.Success
         THEN [success |-> FALSE, errorMsg |-> reply.body.Message]
    ELSE [success |-> TRUE, errorMsg |-> ""]

\* main.go:417-425, 445-453: the outcome of a compensating call.
CompensationResult(reply) ==
    IF reply.err # "" THEN [success |-> FALSE, errorMsg |-> reply.err]
    ELSE [success |-> TRUE, errorMsg |-> ""]

-----------------------------------------------------------------------------
\* executeSaga: the call sites, by line of main.go

Sites == {"L214", "L216", "L221", "L228", "L231", "L232", "L237", "L240",
          "L242", "L243", "L248", "return"}

\* The function called at a site.
Callee(site) ==
    CASE site = "L214" -> "createOrder"
      [] site = "L228" -> "processPayment"
      [] site = "L237" -> "startShipping"
      [] site \in {"L231", "L242"} -> "cancelOrder"
      [] site = "L240" -> "refundPayment"
      [] site \in {"L216", "L232", "L243", "L248"} -> "updateTransactionStatus"
      [] site = "L221" -> "setOrderID"
      [] OTHER -> ""

\* main.go:253, 304, 354, 404, 432: the step name of a function.
StepName(fn) ==
    CASE fn = "createOrder" -> "CREATE_ORDER"
      [] fn = "processPayment" -> "PROCESS_PAYMENT"
      [] fn = "startShipping" -> "START_SHIPPING"
      [] fn = "cancelOrder" -> "CANCEL_ORDER"
      [] fn = "refundPayment" -> "REFUND_PAYMENT"
      [] fn = "cancelShipping" -> "CANCEL_SHIPPING"

ForwardFns == {"createOrder", "processPayment", "startShipping"}

CompensationFns == {"cancelOrder", "refundPayment"}

\* NextSite without the return of main.go:244.
NextSiteNoReturn(site, failed) ==
    CASE site = "L214" -> IF failed THEN "L216" ELSE "L221"
      [] site = "L221" -> "L228"
      [] site = "L228" -> IF failed THEN "L231" ELSE "L237"
      [] site = "L231" -> "L232"
      [] site = "L237" -> IF failed THEN "L240" ELSE "L248"
      [] site = "L240" -> "L242"
      [] site = "L242" -> "L243"
      [] site = "L243" -> "L248"
      [] OTHER -> "return"

\* NextSite compensating a failed creation of the order.
NextSiteCompensateCreate(site, failed) ==
    CASE site = "L214" -> IF failed THEN "L231" ELSE "L221"
      [] site = "L221" -> "L228"
      [] site = "L228" -> IF failed THEN "L231" ELSE "L237"
      [] site = "L231" -> "L232"
      [] site = "L237" -> IF failed THEN "L240" ELSE "L248"
      [] site = "L240" -> "L242"
      [] site = "L242" -> "L243"
      [] OTHER -> "return"

\* NextSite without the refund of main.go:240.
NextSiteSkipRefund(site, failed) ==
    CASE site = "L214" -> IF failed THEN "L216" ELSE "L221"
      [] site = "L221" -> "L228"
      [] site = "L228" -> IF failed THEN "L231" ELSE "L237"
      [] site = "L231" -> "L232"
      [] site = "L237" -> IF failed THEN "L242" ELSE "L248"
      [] site = "L240" -> "L242"
      [] site = "L242" -> "L243"
      [] OTHER -> "return"

\* NextSite without the call of main.go:248.
NextSiteNoCompletion(site, failed) ==
    CASE site = "L214" -> IF failed THEN "L216" ELSE "L221"
      [] site = "L221" -> "L228"
      [] site = "L228" -> IF failed THEN "L231" ELSE "L237"
      [] site = "L231" -> "L232"
      [] site = "L237" -> IF failed THEN "L240" ELSE "return"
      [] site = "L240" -> "L242"
      [] site = "L242" -> "L243"
      [] OTHER -> "return"

\* NextSite with the status of main.go:232 set before the cancellation.
NextSiteStatusFirst(site, failed) ==
    CASE site = "L214" -> IF failed THEN "L216" ELSE "L221"
      [] site = "L221" -> "L228"
      [] site = "L228" -> IF failed THEN "L232" ELSE "L237"
      [] site = "L232" -> "L231"
      [] site = "L237" -> IF failed THEN "L240" ELSE "L248"
      [] site = "L240" -> "L242"
      [] site = "L242" -> "L243"
      [] OTHER -> "return"

\* NextSite going on to the payment whatever became of the order.
NextSiteIgnoreFailure(site, failed) ==
    CASE site = "L214" -> "L221"
      [] site = "L221" -> "L228"
      [] site = "L228" -> IF failed THEN "L231" ELSE "L237"
      [] site = "L231" -> "L232"
      [] site = "L237" -> IF failed THEN "L240" ELSE "L248"
      [] site = "L240" -> "L242"
      [] site = "L242" -> "L243"
      [] OTHER -> "return"

\* NextSite with the cancellation of the order before the refund.
NextSiteCancelFirst(site, failed) ==
    CASE site = "L214" -> IF failed THEN "L216" ELSE "L221"
      [] site = "L221" -> "L228"
      [] site = "L228" -> IF failed THEN "L231" ELSE "L237"
      [] site = "L231" -> "L232"
      [] site = "L237" -> IF failed THEN "L242" ELSE "L248"
      [] site = "L242" -> "L240"
      [] site = "L240" -> "L243"
      [] OTHER -> "return"

\* NextSite cancelling the order a second time after a failed payment.
NextSiteCancelTwice(site, failed) ==
    CASE site = "L214" -> IF failed THEN "L216" ELSE "L221"
      [] site = "L221" -> "L228"
      [] site = "L228" -> IF failed THEN "L231" ELSE "L237"
      [] site = "L231" -> "L242"
      [] site = "L237" -> IF failed THEN "L240" ELSE "L248"
      [] site = "L240" -> "L242"
      [] site = "L242" -> "L243"
      [] OTHER -> "return"

\* main.go:212-249: the site control goes to when the call at a site returns;
\* failed says whether a forward call returned an error.
NextSite(site, failed) ==
    CASE site = "L214" -> IF failed THEN "L216" ELSE "L221"
      [] site = "L221" -> "L228"
      [] site = "L228" -> IF failed THEN "L231" ELSE "L237"
      [] site = "L231" -> "L232"
      [] site = "L237" -> IF failed THEN "L240" ELSE "L248"
      [] site = "L240" -> "L242"
      [] site = "L242" -> "L243"
      [] OTHER -> "return"

\* StatusArgs with the text of main.go:216 at main.go:232.
StatusArgsWrongText(site, err) ==
    CASE site = "L216" -> [status |-> TransactionStatusFailed,
                           reason |-> Sprintf(<<"Failed to create order", ": ", "%v">>, err)]
      [] site = "L232" -> [status |-> TransactionStatusFailed,
                           reason |-> Sprintf(<<"Failed to create order", ": ", "%v">>, err)]
      [] site = "L243" -> [status |-> TransactionStatusFailed,
                           reason |-> Sprintf(<<"Failed to start shipping", ": ", "%v">>, err)]
      [] site = "L248" -> [status |-> TransactionStatusCompleted, reason |-> EmptyStr]

\* main.go:216, 232, 243, 248: the arguments of updateTransactionStatus;
\* err is the text of the error (%v).
StatusArgs(site, err) ==
    CASE site = "L216" -> [status |-> TransactionStatusFailed,
                           reason |-> Sprintf(<<"Failed to create order", ": ", "%v">>, err)]
      [] site = "L232" -> [status |-> TransactionStatusFailed,
                           reason |-> Sprintf(<<"Failed to process payment", ": ", "%v">>, err)]
      [] site = "L243" -> [status |-> TransactionStatusFailed,
                           reason |-> Sprintf(<<"Failed to start shipping", ": ", "%v">>, err)]
      [] site = "L248" -> [status |-> TransactionStatusCompleted, reason |-> EmptyStr]

\* Where a function starts: every one starts by taking the lock.
Entry(site) ==
    IF site = "return" THEN [site |-> site, at |-> "done"]
    ELSE [site |-> site, at |-> "Lock"]

\* A goroutine of executeSaga.
\*   pc      : the call site and the position in the function called
\*   req     : the request it was started with
\*   orderID : main.go:214
\*   err     : the err of executeSaga: Nil, or the error a forward call returned
\*   reply   : what the outstanding call returns
\*   invoked : the functions whose http.Post was made, in order (history)
\*   forward : for each forward call that returned, whether the participant's
\*             answer came back whole and said success (history)
Nil == [nil |-> TRUE, text |-> ""]

Errorf(text) == [nil |-> FALSE, text |-> text]

NewTask(req) ==
    [pc |-> Entry("L214"), req |-> req, orderID |-> EmptyStr, err |-> Nil,
     reply |-> NoReply, invoked |-> <<>>, forward |-> <<>>]

\* The participant handled the request and the caller has its answer of success.
Succeeded(reply) ==
    /\ reply.err = ""
    /\ reply.readable
    /\ reply.body.json
    /\ reply.body.Success

\* The result of the call of a function, from the reply.
CallResult(fn, reply) ==
    IF fn \in ForwardFns THEN ForwardResult(reply) ELSE CompensationResult(reply)

\* ReturnedErr with the error of a compensating call assigned to err.
ReturnedErrClobbered(fn, err, result) ==
    IF result.success
    THEN (IF fn \in ForwardFns THEN Nil ELSE err)
    ELSE Errorf(result.errorMsg)

\* main.go:264-299 and the like: the error a function returns to executeSaga,
\* which keeps the err it has when the function returns none (231, 240, 242).
ReturnedErr(fn, err, result) ==
    IF fn \in ForwardFns
    THEN (IF result.success THEN Nil ELSE Errorf(result.errorMsg))
    ELSE err

\* main.go:299: the order id createOrder returns.
ReturnedOrderID(fn, orderID, result, reply) ==
    IF fn = "createOrder"
    THEN (IF result.success THEN reply.body.ID ELSE EmptyStr)
    ELSE orderID

\* Unlock releasing the lock of the handlers only.
UnlockHandlersOnly(holder) ==
    IF holder[1] = "executeSaga" THEN holder ELSE Free

\* mu.Unlock(), deferred or not (main.go:160, 225, 488, 508, 534).
Unlock(holder) == Free

Holder(transactionID) == <<"executeSaga", transactionID>>

HandlerHolder(req) == <<"createOrderSagaHandler", req>>

-----------------------------------------------------------------------------
\* Initial state: the four processes have just started (main.go:100-105).

NoResponse == [code |-> 0, error |-> EmptyStr, Transaction |-> ZeroTransaction]

\* No status request is being handled.
Idle ==
    [at |-> "idle", id |-> EmptyStr, tx |-> ZeroTransaction, array |-> <<>>,
     cap |-> 0, resp |-> NoResponse]

Init ==
    /\ transactions = <<>>
    /\ nextID = 1
    /\ mu = Free
    /\ tasks = <<>>
    /\ startResp = NoResponse
    /\ statusReq = Idle
    /\ orders = <<>>
    /\ payments = <<>>
    /\ shippings = <<>>

-----------------------------------------------------------------------------
\* POST /create-order-saga (main.go:117-177)

\* main.go:131-143: a request that fails the validation.
CreateOrderSagaReject(req) ==
    /\ ValidateRequest(req) # EmptyStr
    /\ startResp' = [code |-> StatusBadRequest, error |-> ValidateRequest(req),
                     Transaction |-> ZeroTransaction]
    /\ UNCHANGED <<statusReq, transactions, nextID, mu, tasks, participants>>

\* main.go:146: a valid request takes the lock.
CreateOrderSagaLock(req) ==
    /\ ValidateRequest(req) = EmptyStr
    /\ nextID <= MaxSagas
    /\ mu = Free
    /\ mu' = HandlerHolder(req)
    /\ UNCHANGED <<statusReq, transactions, nextID, tasks, startResp, participants>>

\* IncrementNextID without the increment.
IncrementNextIDStuck(n) == n

\* main.go:148
IncrementNextID(n) == n + 1

\* main.go:147-174: the transaction is stored, the lock released, the saga
\* started and the stored value returned.
CreateOrderSaga(req) ==
    /\ mu = HandlerHolder(req)
    /\ LET transactionID == TrxID(nextID)
           transaction == NewTransaction(transactionID, req)
       IN  /\ nextID' = IncrementNextID(nextID)
           /\ transactions' = MapSet(transactions, transactionID, transaction)
           /\ tasks' = MapSet(tasks, transactionID, NewTask(req))
           /\ startResp' = [code |-> StatusAccepted, error |-> EmptyStr,
                            Transaction |-> transaction]
    /\ mu' = Unlock(mu)
    /\ UNCHANGED <<statusReq, participants>>

-----------------------------------------------------------------------------
\* executeSaga (main.go:212-249) and the functions it calls

At(t, fns, at) ==
    /\ t \in DOMAIN tasks
    /\ Callee(tasks[t].pc.site) \in fns
    /\ tasks[t].pc.at = at

Goto(t, at) == [tasks EXCEPT ![t].pc.at = at]

CallFns == ForwardFns \cup CompensationFns

\* main.go:487: addStep waits for the lock.
AddStepLock(t) ==
    /\ At(t, CallFns, "Lock")
    /\ mu = Free
    /\ mu' = Holder(t)
    /\ tasks' = Goto(t, "addStep")
    /\ UNCHANGED <<statusReq, transactions, nextID, startResp, participants>>

\* main.go:490-504
AddStep(t) ==
    /\ At(t, CallFns, "addStep")
    /\ mu = Holder(t)
    /\ transactions' = addStep(transactions, t, StepName(Callee(tasks[t].pc.site)))
    /\ mu' = Unlock(mu)
    /\ tasks' = Goto(t, "Post")
    /\ UNCHANGED <<statusReq, nextID, startResp, participants>>

\* The call is under way: the reply is what the caller will find.
Outstanding(t, reply) ==
    [tasks EXCEPT ![t].pc.at = "Return", ![t].reply = reply,
                  ![t].invoked = Append(@, Callee(tasks[t].pc.site))]

\* main.go:256-268
CreateOrderPost(t, faults) ==
    /\ At(t, {"createOrder"}, "Post")
    /\ \E x \in Exchange(orders, createOrderHandler(orders,
                    [CustomerID |-> tasks[t].req.CustomerID,
                     Amount |-> tasks[t].req.Amount]), faults) :
          /\ orders' = x.state
          /\ tasks' = Outstanding(t, x.reply)
    /\ UNCHANGED <<statusReq, transactions, nextID, mu, startResp, payments, shippings>>

\* main.go:307-318
ProcessPaymentPost(t, faults) ==
    /\ At(t, {"processPayment"}, "Post")
    /\ \E x \in Exchange(payments, processPaymentHandler(payments,
                    [OrderID |-> tasks[t].orderID,
                     Amount |-> tasks[t].req.Amount]), faults) :
          /\ payments' = x.state
          /\ tasks' = Outstanding(t, x.reply)
    /\ UNCHANGED <<statusReq, transactions, nextID, mu, startResp, orders, shippings>>

\* main.go:357-368
StartShippingPost(t, faults) ==
    /\ At(t, {"startShipping"}, "Post")
    /\ \E x \in Exchange(shippings, startShippingHandler(shippings,
                    [OrderID |-> tasks[t].orderID,
                     Address |-> tasks[t].req.Address]), faults) :
          /\ shippings' = x.state
          /\ tasks' = Outstanding(t, x.reply)
    /\ UNCHANGED <<statusReq, transactions, nextID, mu, startResp, orders, payments>>

\* main.go:407-417
CancelOrderPost(t, faults) ==
    /\ At(t, {"cancelOrder"}, "Post")
    /\ \E x \in Exchange(orders, cancelOrderHandler(orders,
                    [OrderID |-> tasks[t].orderID]), faults) :
          /\ orders' = x.state
          /\ tasks' = Outstanding(t, x.reply)
    /\ UNCHANGED <<statusReq, transactions, nextID, mu, startResp, payments, shippings>>

\* main.go:435-445
RefundPaymentPost(t, faults) ==
    /\ At(t, {"refundPayment"}, "Post")
    /\ \E x \in Exchange(payments, refundPaymentHandler(payments,
                    [OrderID |-> tasks[t].orderID]), faults) :
          /\ payments' = x.state
          /\ tasks' = Outstanding(t, x.reply)
    /\ UNCHANGED <<statusReq, transactions, nextID, mu, startResp, orders, shippings>>

\* main.go:507: the call has returned and updateStepStatus takes the lock.
UpdateStepStatusLock(t) ==
    /\ At(t, CallFns, "Return")
    /\ mu = Free
    /\ mu' = Holder(t)
    /\ tasks' = Goto(t, "updateStepStatus")
    /\ UNCHANGED <<statusReq, transactions, nextID, startResp, participants>>

\* main.go:268-299 and the like, 510-530: the step is concluded with what the
\* function made of the reply, and the function returns to executeSaga.
UpdateStepStatus(t) ==
    /\ At(t, CallFns, "updateStepStatus")
    /\ mu = Holder(t)
    /\ LET fn == Callee(tasks[t].pc.site)
           reply == tasks[t].reply
           result == CallResult(fn, reply)
           err == ReturnedErr(fn, tasks[t].err, result)
           newTxs == updateStepStatus(transactions, t, StepName(fn),
                                      result.success, result.errorMsg)
       IN  /\ transactions' = newTxs
           /\ statusReq' \in Raced(statusReq, t, transactions, newTxs)
           /\ tasks' = [tasks EXCEPT
                 ![t].pc = Entry(NextSite(tasks[t].pc.site, ~err.nil)),
                 ![t].err = err,
                 ![t].orderID = ReturnedOrderID(fn, @, result, reply),
                 ![t].reply = NoReply,
                 ![t].forward = IF fn \in ForwardFns
                                THEN Append(@, Succeeded(reply)) ELSE @]
    /\ mu' = Unlock(mu)
    /\ UNCHANGED <<nextID, startResp, participants>>

\* main.go:221
SetOrderIDLock(t) ==
    /\ At(t, {"setOrderID"}, "Lock")
    /\ mu = Free
    /\ mu' = Holder(t)
    /\ tasks' = Goto(t, "setOrderID")
    /\ UNCHANGED <<statusReq, transactions, nextID, startResp, participants>>

\* main.go:222-225
SetOrderID(t) ==
    /\ At(t, {"setOrderID"}, "setOrderID")
    /\ mu = Holder(t)
    /\ transactions' = setOrderID(transactions, t, tasks[t].orderID)
    /\ mu' = Unlock(mu)
    /\ tasks' = [tasks EXCEPT ![t].pc = Entry(NextSite(tasks[t].pc.site, FALSE))]
    /\ UNCHANGED <<statusReq, nextID, startResp, participants>>

\* main.go:533
UpdateTransactionStatusLock(t) ==
    /\ At(t, {"updateTransactionStatus"}, "Lock")
    /\ mu = Free
    /\ mu' = Holder(t)
    /\ tasks' = Goto(t, "updateTransactionStatus")
    /\ UNCHANGED <<statusReq, transactions, nextID, startResp, participants>>

\* main.go:536-551, and the return of executeSaga.
UpdateTransactionStatus(t) ==
    /\ At(t, {"updateTransactionStatus"}, "updateTransactionStatus")
    /\ mu = Holder(t)
    /\ LET args == StatusArgs(tasks[t].pc.site, tasks[t].err.text)
       IN  transactions' = updateTransactionStatus(transactions, t,
                                args.status, args.reason)
    /\ mu' = Unlock(mu)
    /\ tasks' = [tasks EXCEPT ![t].pc = Entry(NextSite(tasks[t].pc.site, FALSE))]
    /\ UNCHANGED <<statusReq, nextID, startResp, participants>>

-----------------------------------------------------------------------------

TransactionIDs == {TrxID(n) : n \in 1..(MaxSagas + 1)}

\* The steps of the goroutine of transaction t, on a network of the given faults.
executeSaga(t, faults) ==
    \/ AddStepLock(t)
    \/ AddStep(t)
    \/ CreateOrderPost(t, faults)
    \/ ProcessPaymentPost(t, faults)
    \/ StartShippingPost(t, faults)
    \/ CancelOrderPost(t, faults)
    \/ RefundPaymentPost(t, faults)
    \/ UpdateStepStatusLock(t)
    \/ UpdateStepStatus(t)
    \/ SetOrderIDLock(t)
    \/ SetOrderID(t)
    \/ UpdateTransactionStatusLock(t)
    \/ UpdateTransactionStatus(t)

\* The orchestrator accepting valid requests and running their sagas.
Sagas(faults) ==
    \/ \E req \in Requests : CreateOrderSagaLock(req)
    \/ \E req \in Requests : CreateOrderSaga(req)
    \/ \E t \in TransactionIDs : executeSaga(t, faults)

Next == Sagas(AllFaults)

Spec == Init /\ [][Next]_vars

\* The same with the requests the validation turns down.
FacadeNext ==
    \/ \E req \in Requests : CreateOrderSagaReject(req)
    \/ Sagas(FewFaults)

FacadeSpec == Init /\ [][FacadeNext]_vars

\* Every goroutine that can run does run, and a handler holding the lock goes
\* on: the Go scheduler starves no runnable goroutine, and every participant
\* call returns.
Fairness ==
    /\ \A t \in TransactionIDs : WF_vars(executeSaga(t, FewFaults))
    /\ WF_vars(\E req \in Requests : CreateOrderSaga(req))

FairSpec == Init /\ [][Sagas(FewFaults)]_vars /\ Fairness

\* One saga at a time on the network with every fault, under the same
\* fairness.
SoloNext == Sagas(AllFaults) /\ nextID' <= MaxSoloSagas + 1

SoloFairness ==
    /\ \A t \in TransactionIDs :
          WF_vars(executeSaga(t, AllFaults) /\ nextID' <= MaxSoloSagas + 1)
    /\ WF_vars(\E req \in Requests : CreateOrderSaga(req))

SoloFairSpec == Init /\ [][SoloNext]_vars /\ SoloFairness

-----------------------------------------------------------------------------
\* GET /transaction-status (main.go:179-210)

StatusHolder(id) == <<"transactionStatusHandler", id>>

\* The transaction_id of a request: an id of a transaction, or none.
QueryIDs == TransactionIDs \cup {EmptyStr}

\* Responded with an empty Transaction in the answer.
RespondedBlank(q, code, error, transaction) ==
    [q EXCEPT !.at = "responded", !.array = <<>>,
              !.resp = [code |-> code, error |-> error,
                        Transaction |-> ZeroTransaction]]

\* What the handler answers: the status code, the text of an http.Error and
\* the Transaction of a TransactionResponse.
Responded(q, code, error, transaction) ==
    [q EXCEPT !.at = "responded", !.array = <<>>,
              !.resp = [code |-> code, error |-> error,
                        Transaction |-> transaction]]

\* main.go:186-190
TransactionStatusBadRequest ==
    /\ statusReq.at = "idle"
    /\ statusReq' = Responded(statusReq, StatusBadRequest,
                               <<"Transaction ID is required">>, ZeroTransaction)
    /\ UNCHANGED <<transactions, nextID, mu, tasks, startResp, participants>>

\* main.go:193: a request with an id takes the lock.
TransactionStatusLock(id) ==
    /\ statusReq.at = "idle"
    /\ id # EmptyStr
    /\ mu = Free
    /\ mu' = StatusHolder(id)
    /\ statusReq' = [statusReq EXCEPT !.at = "Get", !.id = id]
    /\ UNCHANGED <<transactions, nextID, tasks, startResp, participants>>

\* main.go:194-200: the Transaction is copied out of the map and the lock
\* released; an id the map does not have is answered at once.
TransactionStatusGet ==
    /\ statusReq.at = "Get"
    /\ mu = StatusHolder(statusReq.id)
    /\ mu' = Unlock(mu)
    /\ IF statusReq.id \in DOMAIN transactions
       THEN LET transaction == transactions[statusReq.id]
            IN  statusReq' = [statusReq EXCEPT
                                 !.at = "Encode", !.tx = transaction,
                                 !.array = transaction.Steps,
                                 !.cap = SliceCap(Len(transaction.Steps))]
       ELSE statusReq' = Responded(statusReq, StatusNotFound,
                                   <<"Transaction not found">>, ZeroTransaction)
    /\ UNCHANGED <<transactions, nextID, tasks, startResp, participants>>

\* main.go:203-209: the copy is encoded, its Steps read out of their array.
TransactionStatusEncode ==
    /\ statusReq.at = "Encode"
    /\ statusReq' = Responded(statusReq, StatusOK, EmptyStr,
                               [statusReq.tx EXCEPT !.Steps = statusReq.array])
    /\ UNCHANGED <<transactions, nextID, mu, tasks, startResp, participants>>

\* main.go:210: the handler returns.
TransactionStatusReturn ==
    /\ statusReq.at = "responded"
    /\ statusReq' = Idle
    /\ UNCHANGED <<transactions, nextID, mu, tasks, startResp, participants>>

transactionStatusHandler ==
    \/ TransactionStatusBadRequest
    \/ \E id \in QueryIDs : TransactionStatusLock(id)
    \/ TransactionStatusGet
    \/ TransactionStatusEncode
    \/ TransactionStatusReturn

\* The orchestrator running sagas and answering status requests.
QueryNext ==
    \/ transactionStatusHandler
    \/ Sagas(FewFaults)

QuerySpec == Init /\ [][QueryNext]_vars

-----------------------------------------------------------------------------
\* updateStepStatus (main.go:506-530) on its own, applied to any ledger

LedgerNames == {"CREATE_ORDER", "CANCEL_ORDER"}

\* A step as addStep leaves it, and as updateStepStatus leaves it.
LedgerSteps ==
    UNION {{NewStep(name), ConcludeStep(NewStep(name), TRUE, ""),
            ConcludeStep(NewStep(name), FALSE, ErrTransport)}
              : name \in LedgerNames}

Ledgers == UNION {[1..n -> LedgerSteps] : n \in 0..MaxLedger}

\* A store with no transaction, or with TRX-1 and any ledger.
LedgerInit ==
    /\ transactions \in
          {<<>>} \cup
          {MapSet(<<>>, TrxID(1),
                  [NewTransaction(TrxID(1), [CustomerID |-> "CUST-1", Amount |-> 100,
                                             Address |-> "Jl. Merdeka 1"])
                      EXCEPT !.Steps = ledger]) : ledger \in Ledgers}
    /\ nextID = Cardinality(DOMAIN transactions) + 1
    /\ mu = Free
    /\ tasks = <<>>
    /\ startResp = NoResponse
    /\ statusReq = Idle
    /\ orders = <<>>
    /\ payments = <<>>
    /\ shippings = <<>>

\* The arguments of a call of updateStepStatus.
EndStepArgs ==
    [transactionID : {TrxID(1), TrxID(2)},
     stepName : LedgerNames \cup {"REFUND_PAYMENT"},
     success : BOOLEAN,
     errorMsg : {ErrParse}]

\* main.go:506-530: one call, from mu.Lock to the deferred mu.Unlock.
EndStep(args) ==
    /\ mu = Free
    /\ transactions' = updateStepStatus(transactions, args.transactionID,
                            args.stepName, args.success, args.errorMsg)
    /\ mu' = Unlock(Holder(args.transactionID))
    /\ UNCHANGED <<nextID, tasks, startResp, statusReq, participants>>

LedgerNext == \E args \in EndStepArgs : EndStep(args)

LedgerSpec == LedgerInit /\ [][LedgerNext]_vars

-----------------------------------------------------------------------------
\* Vocabulary of the properties

Terminal(t) ==
    /\ t \in DOMAIN transactions
    /\ transactions[t].Status \in {TransactionStatusCompleted, TransactionStatusFailed}

Statuses == {TransactionStatusPending, TransactionStatusCompleted,
             TransactionStatusFailed}

\* executeSaga has returned.
Done(t) == t \in DOMAIN tasks /\ tasks[t].pc.site = "return"

Ledger(t) == transactions[t].Steps

Names(steps) == [i \in 1..Len(steps) |-> steps[i].Name]

IsPrefix(s, r) == Len(s) <= Len(r) /\ s = SubSeq(r, 1, Len(s))

Concluded(step) ==
    /\ step.Status \in {TransactionStatusCompleted, TransactionStatusFailed}
    /\ step.EndedAt = TimeNow

-----------------------------------------------------------------------------
\* C1: a Transaction's Status is always PENDING, COMPLETED or FAILED; a
\* Transaction is created PENDING and never removed; the only changes of Status
\* are PENDING -> COMPLETED and PENDING -> FAILED, so a COMPLETED or FAILED
\* Transaction keeps its Status whatever the other sagas do.
C1_StatusTransitions ==
    [][/\ DOMAIN transactions \subseteq DOMAIN transactions'
       /\ \A t \in DOMAIN transactions' :
            /\ transactions'[t].Status \in Statuses
            /\ IF t \in DOMAIN transactions
               THEN \/ transactions'[t].Status = transactions[t].Status
                    \/ /\ transactions[t].Status = TransactionStatusPending
                       /\ transactions'[t].Status \in {TransactionStatusCompleted,
                                                        TransactionStatusFailed}
               ELSE transactions'[t].Status = TransactionStatusPending]_vars

\* One saga has ended COMPLETED, another has ended FAILED, and both are done.
C1_Witness ==
    \E t, u \in DOMAIN transactions :
        /\ Done(t) /\ transactions[t].Status = TransactionStatusCompleted
        /\ Done(u) /\ transactions[u].Status = TransactionStatusFailed

\* C2: when the three forward calls of a saga all succeeded and executeSaga has
\* returned, the Transaction is COMPLETED with an empty failure reason, its
\* ledger is CREATE_ORDER, PROCESS_PAYMENT, START_SHIPPING in that order, each
\* COMPLETED, and no other participant operation was invoked.
C2_AllSucceed ==
    \A t \in DOMAIN tasks :
        (Done(t) /\ tasks[t].forward = <<TRUE, TRUE, TRUE>>) =>
            /\ transactions[t].Status = TransactionStatusCompleted
            /\ transactions[t].FailureReason = EmptyStr
            /\ Names(Ledger(t)) = <<"CREATE_ORDER", "PROCESS_PAYMENT", "START_SHIPPING">>
            /\ \A i \in 1..Len(Ledger(t)) :
                  Ledger(t)[i].Status = TransactionStatusCompleted
            /\ tasks[t].invoked = <<"createOrder", "processPayment", "startShipping">>

C2_Witness ==
    \E t \in DOMAIN tasks : Done(t) /\ tasks[t].forward = <<TRUE, TRUE, TRUE>>

\* C3: once the CREATE_ORDER call of a saga has failed, the ledger is the one
\* step CREATE_ORDER with status FAILED and stays so, no operation other than the
\* creation of the order is ever invoked, and when executeSaga has returned the
\* Transaction is FAILED with a reason that starts "Failed to create order".
C3_CreateOrderFails ==
    \A t \in DOMAIN tasks :
        (tasks[t].forward = <<FALSE>>) =>
            /\ tasks[t].invoked = <<"createOrder">>
            /\ Names(Ledger(t)) = <<"CREATE_ORDER">>
            /\ Ledger(t)[1].Status = TransactionStatusFailed
            /\ Done(t) =>
                  /\ transactions[t].Status = TransactionStatusFailed
                  /\ StartsWith(transactions[t].FailureReason,
                                <<"Failed to create order">>)

C3_Witness ==
    \E t \in DOMAIN tasks : Done(t) /\ tasks[t].forward = <<FALSE>>

\* C4: once CREATE_ORDER has succeeded and the PROCESS_PAYMENT call has failed,
\* the only operation invoked afterwards is the cancellation of the order, and
\* when executeSaga has returned the Transaction is FAILED with a reason that
\* starts "Failed to process payment" and the ledger is CREATE_ORDER COMPLETED,
\* PROCESS_PAYMENT FAILED, CANCEL_ORDER COMPLETED or FAILED.
C4_PaymentFails ==
    \A t \in DOMAIN tasks :
        (tasks[t].forward = <<TRUE, FALSE>>) =>
            /\ IsPrefix(tasks[t].invoked,
                        <<"createOrder", "processPayment", "cancelOrder">>)
            /\ Done(t) =>
                  /\ transactions[t].Status = TransactionStatusFailed
                  /\ StartsWith(transactions[t].FailureReason,
                                <<"Failed to process payment">>)
                  /\ Names(Ledger(t)) =
                        <<"CREATE_ORDER", "PROCESS_PAYMENT", "CANCEL_ORDER">>
                  /\ Ledger(t)[1].Status = TransactionStatusCompleted
                  /\ Ledger(t)[2].Status = TransactionStatusFailed
                  /\ Concluded(Ledger(t)[3])

C4_Witness ==
    \E t \in DOMAIN tasks : Done(t) /\ tasks[t].forward = <<TRUE, FALSE>>

C6_CompensationFailureLedgered ==
    [][\A t \in DOMAIN tasks :
          (/\ At(t, CompensationFns, "updateStepStatus")
           /\ ~Succeeded(tasks[t].reply)
           /\ tasks'[t].pc # tasks[t].pc)
          => LET name == StepName(Callee(tasks[t].pc.site))
                 i == FindStep(transactions'[t].Steps, name)
             IN  /\ i # 0
                 /\ transactions'[t].Steps[i].Status = TransactionStatusFailed
                 /\ transactions'[t].Steps[i].Error # ""]_vars

\* C7: a saga whose forward call failed ends FAILED, with the reason made of the
\* error of that forward call (the error text of its ledgered step) whatever
\* became of the compensating calls; after a failure of START_SHIPPING the
\* cancellation of the order is invoked also when the refund failed.
ReasonHead(k) ==
    CASE k = 1 -> "Failed to create order"
      [] k = 2 -> "Failed to process payment"
      [] k = 3 -> "Failed to start shipping"

C7_CompensationBestEffort ==
    \A t \in DOMAIN tasks :
        (Done(t) /\ tasks[t].forward # <<TRUE, TRUE, TRUE>>) =>
            LET k == Len(tasks[t].forward)
            IN  /\ transactions[t].Status = TransactionStatusFailed
                /\ Ledger(t)[k].Status = TransactionStatusFailed
                /\ transactions[t].FailureReason =
                      <<ReasonHead(k), ": ", Ledger(t)[k].Error>>
                /\ k = 3 => /\ tasks[t].invoked[4] = "refundPayment"
                            /\ tasks[t].invoked[5] = "cancelOrder"
                            /\ Ledger(t)[5].Name = "CANCEL_ORDER"
                /\ k = 2 => tasks[t].invoked[3] = "cancelOrder"

\* A saga is done whose refund failed for one reason after its shipping had
\* failed for another, and whose order cancellation was still made.
C7_Witness ==
    \E t \in DOMAIN tasks :
        /\ Done(t)
        /\ Len(Ledger(t)) = 5
        /\ Ledger(t)[4].Name = "REFUND_PAYMENT"
        /\ Ledger(t)[4].Status = TransactionStatusFailed
        /\ Ledger(t)[4].Error # Ledger(t)[3].Error
        /\ Ledger(t)[5].Status = TransactionStatusCompleted

\* C8: the step in which a start-saga request is accepted returns, with the
\* accepted outcome, the Transaction just stored: PENDING, without steps, with an
\* id TRX-<n> that no Transaction has yet and whose n is greater than that of
\* every id handed out before.
AcceptStep == mu \in {HandlerHolder(req) : req \in Requests} /\ mu' # mu

C8_FreshPendingSnapshot ==
    [][AcceptStep =>
          LET tx == startResp'.Transaction
          IN  /\ startResp'.code = StatusAccepted
              /\ tx.Status = TransactionStatusPending
              /\ tx.Steps = <<>>
              /\ Len(tx.ID) = 2 /\ tx.ID[1] = "TRX-" /\ tx.ID[2] \in Nat
              /\ tx.ID \notin DOMAIN transactions
              /\ \A u \in DOMAIN transactions : u[2] < tx.ID[2]
              /\ tx.ID \in DOMAIN transactions'
              /\ transactions'[tx.ID] = tx]_vars

\* The second request was accepted while the saga of the first was waiting for
\* a participant.
C8_Witness ==
    /\ startResp.code = StatusAccepted
    /\ startResp.Transaction.ID = TrxID(2)
    /\ TrxID(1) \in DOMAIN tasks
    /\ tasks[TrxID(1)].pc.at = "Return"

\* C9: the step that answers a start-saga request with the bad-request outcome
\* changes neither the store nor the id sequence nor the lock, starts no saga
\* and calls no participant; no request with an empty customer id, an amount
\* <= 0 or an empty address ever takes the lock or gets a Transaction.
RejectStep == startResp'.code = StatusBadRequest /\ startResp' # startResp

ValidRequest(req) == req.CustomerID # "" /\ req.Amount > 0 /\ req.Address # ""

C9_RejectedBeforeCreation ==
    [][/\ RejectStep => UNCHANGED <<transactions, nextID, mu, tasks, participants>>
       /\ \A req \in Requests : mu' = HandlerHolder(req) => ValidRequest(req)
       /\ \A t \in DOMAIN transactions' :
             ValidRequest(transactions'[t]) /\ ValidRequest(tasks'[t].req)]_vars

\* A request is turned down while a saga is under way.
C9_Witness ==
    /\ startResp.code = StatusBadRequest
    /\ \E t \in DOMAIN tasks : tasks[t].pc.at = "Return"

\* C10: every saga started reaches COMPLETED or FAILED, when every goroutine
\* that can take a step eventually takes one and every call returns.
C10_Termination ==
    \A t \in TransactionIDs : (t \in DOMAIN transactions) ~> Terminal(t)

\* One saga has ended while a saga started before it still waits for a
\* participant.
C10_Witness ==
    /\ Terminal(TrxID(2))
    /\ tasks[TrxID(1)].pc.at = "Return"

\* C11: the Transaction of a get-status response is the value the stored
\* Transaction had when the handler read it under the lock, whatever the saga
\* did to its steps afterwards, and no step of it has a status COMPLETED or
\* FAILED without an end timestamp or a status FAILED without its error text.
WellFormedStep(step) ==
    /\ step.Status \in {TransactionStatusCompleted, TransactionStatusFailed}
          => step.EndedAt # TimeZero
    /\ step.Status = TransactionStatusFailed => step.Error # ""

C11_FullyFormedSnapshot ==
    (statusReq.at = "responded" /\ statusReq.resp.code = StatusOK) =>
        /\ statusReq.resp.Transaction = statusReq.tx
        /\ \A i \in 1..Len(statusReq.resp.Transaction.Steps) :
              WellFormedStep(statusReq.resp.Transaction.Steps[i])

\* C12: a step changes the stored Transaction t only when the goroutine of t
\* holds the lock, and stores a new one only from the start-saga handler; the
\* ledger of t is, in order, the steps the goroutine of t has begun, and the
\* order id stored is the one that goroutine got.
Begun(t) ==
    [i \in 1..Len(tasks[t].invoked) |-> StepName(tasks[t].invoked[i])]
    \o (IF At(t, CallFns, "Post")
        THEN <<StepName(Callee(tasks[t].pc.site))>> ELSE <<>>)

C12_OwnTransactionOnly ==
    [][\A t \in DOMAIN transactions' :
          /\ IF t \in DOMAIN transactions
             THEN transactions'[t] # transactions[t] => mu = Holder(t)
             ELSE mu \in {HandlerHolder(req) : req \in Requests}
          /\ Names(transactions'[t].Steps) = Begun(t)'
          /\ transactions'[t].OrderID \in {EmptyStr, tasks'[t].orderID}
          /\ Done(t)' => transactions'[t].OrderID = tasks'[t].orderID]_vars

\* Two sagas wait for a participant at the same time, each with steps ledgered.
C12_Witness ==
    /\ TrxID(1) \in DOMAIN tasks /\ tasks[TrxID(1)].pc.at = "Return"
    /\ Len(Ledger(TrxID(1))) >= 2
    /\ TrxID(2) \in DOMAIN tasks /\ tasks[TrxID(2)].pc.at = "Return"
    /\ Len(Ledger(TrxID(2))) >= 2

\* C13: a step of the status handler changes nothing of the store, the id
\* sequence, the sagas or the participants; a COMPLETED or FAILED Transaction is
\* never changed again; and a response made from a copy read when the
\* Transaction was COMPLETED or FAILED carries the stored Transaction, so any
\* two of them are the same.
StatusStep == statusReq'.at # statusReq.at

C13_StatusIdempotent ==
    [][/\ StatusStep =>
             UNCHANGED <<transactions, nextID, tasks, startResp, participants>>
       /\ \A t \in DOMAIN transactions :
             Terminal(t) => transactions'[t] = transactions[t]
       /\ (/\ statusReq.at = "Encode"
           /\ statusReq'.at = "responded"
           /\ statusReq.tx.Status \in {TransactionStatusCompleted,
                                        TransactionStatusFailed})
          => /\ statusReq'.resp.code = StatusOK
             /\ statusReq'.resp.Transaction = transactions[statusReq.id]]_vars

\* The status of an ended saga is answered while another saga is under way.
C13_Witness ==
    /\ statusReq.at = "responded"
    /\ statusReq.resp.code = StatusOK
    /\ statusReq.resp.Transaction.Status = TransactionStatusFailed
    /\ \E u \in DOMAIN tasks : u # statusReq.id /\ tasks[u].pc.at = "Return"

\* C16: the Transactions stored are those of the ids start-saga has issued,
\* TRX-1 to TRX-(nextID - 1), the one of the last start response among them, and
\* none is ever removed; a status request with an id is answered not-found when
\* that id has not been issued at the time the store is read, and with the
\* Transaction otherwise.
Issued(n) == {TrxID(k) : k \in 1..(n - 1)}

C16_NotFoundOnlyUnknown ==
    [][/\ DOMAIN transactions \subseteq DOMAIN transactions'
       /\ DOMAIN transactions' = Issued(nextID')
       /\ startResp'.code = StatusAccepted
             => startResp'.Transaction.ID \in DOMAIN transactions'
       /\ (statusReq.at = "Get" /\ statusReq'.at # "Get") =>
             IF statusReq.id \in Issued(nextID)
             THEN /\ statusReq'.at = "Encode"
                  /\ statusReq'.tx = transactions[statusReq.id]
             ELSE /\ statusReq'.at = "responded"
                  /\ statusReq'.resp.code = StatusNotFound]_vars

\* The status of a saga is answered before its goroutine has taken a step.
C16_Witness ==
    /\ statusReq.at = "responded"
    /\ statusReq.resp.code = StatusOK
    /\ statusReq.id = startResp.Transaction.ID
    /\ tasks[statusReq.id] = NewTask(tasks[statusReq.id].req)

\* C14: the failure reason of a Transaction is non-empty exactly when its
\* Status is FAILED, and the reason of a FAILED Transaction begins with the text
\* that names the forward call that failed, the last one its saga made.
C14_ReasonIffFailed ==
    \A t \in DOMAIN transactions :
        /\ transactions[t].FailureReason # EmptyStr
              <=> transactions[t].Status = TransactionStatusFailed
        /\ transactions[t].Status = TransactionStatusFailed =>
              LET k == Len(tasks[t].forward)
              IN  /\ k \in 1..3
                  /\ ~tasks[t].forward[k]
                  /\ transactions[t].FailureReason[1] = ReasonHead(k)

\* One saga has failed at its payment while another is COMPLETED.
C14_Witness ==
    \E t, u \in DOMAIN transactions :
        /\ transactions[t].Status = TransactionStatusFailed
        /\ transactions[t].FailureReason[1] = "Failed to process payment"
        /\ transactions[u].Status = TransactionStatusCompleted

\* C15: the completion timestamp of a Transaction is unset exactly when its
\* Status is PENDING.
C15_CompletedAtIffTerminal ==
    \A t \in DOMAIN transactions :
        transactions[t].CompletedAt = TimeZero
            <=> transactions[t].Status = TransactionStatusPending

\* One Transaction is FAILED and has its completion time while another is
\* PENDING with steps ledgered.
C15_Witness ==
    \E t, u \in DOMAIN transactions :
        /\ transactions[t].Status = TransactionStatusFailed
        /\ transactions[t].CompletedAt = TimeNow
        /\ transactions[u].Status = TransactionStatusPending
        /\ Len(Ledger(u)) >= 1

\* C17: when START_SHIPPING of a saga has failed and the Shipping service holds
\* a shipping of the order that is not cancelled, a CANCEL_SHIPPING step is in
\* the ledger before the REFUND_PAYMENT step.
HoldsShipping(orderID) ==
    \E j \in 1..Len(shippings) :
        /\ shippings[j].OrderID = orderID
        /\ shippings[j].Status # ShippingStatusCancelled

C17_CancelShippingBeforeRefund ==
    \A t \in DOMAIN tasks :
        (/\ tasks[t].forward = <<TRUE, TRUE, FALSE>>
         /\ HoldsShipping(tasks[t].orderID)
         /\ Mentions(Names(Ledger(t)), "REFUND_PAYMENT"))
        => \E i, k \in 1..Len(Ledger(t)) :
              /\ i < k
              /\ Ledger(t)[i].Name = "CANCEL_SHIPPING"
              /\ Ledger(t)[k].Name = "REFUND_PAYMENT"

\* C18: every step ledgered PENDING is later COMPLETED or FAILED with its end
\* timestamp, whatever the network does to the call, when every goroutine that
\* can take a step eventually takes one.
StepPositions == 1..5

C18_StepsConcluded ==
    \A t \in TransactionIDs : \A i \in StepPositions :
        (/\ t \in DOMAIN transactions
         /\ Len(transactions[t].Steps) >= i
         /\ transactions[t].Steps[i].Status = TransactionStatusPending)
        ~> (/\ t \in DOMAIN transactions
            /\ Len(transactions[t].Steps) >= i
            /\ Concluded(transactions[t].Steps[i]))

\* A compensating step is PENDING, its call answered by a response that cannot
\* be read.
C18_Witness ==
    \E t \in DOMAIN tasks :
        /\ At(t, CompensationFns, "Return")
        /\ tasks[t].reply.err = "" /\ ~tasks[t].reply.readable
        /\ Ledger(t)[Len(Ledger(t))].Status = TransactionStatusPending

\* C19: a Transaction that is COMPLETED or FAILED has no PENDING step, and its
\* ledger never changes again.
C19_TerminalLedgerClosed ==
    [][\A t \in DOMAIN transactions' :
          /\ Terminal(t)' =>
                \A i \in 1..Len(transactions'[t].Steps) :
                    Concluded(transactions'[t].Steps[i])
          /\ Terminal(t) => transactions'[t].Steps = transactions[t].Steps]_vars

\* A saga has ended FAILED after its compensation while another goes on.
C19_Witness ==
    \E t, u \in DOMAIN tasks :
        /\ Done(t)
        /\ transactions[t].Status = TransactionStatusFailed
        /\ Len(Ledger(t)) = 3
        /\ ~Done(u) /\ Len(Ledger(u)) >= 1

\* C20: a Transaction has at most one PENDING step, the last of its ledger, and
\* it is the step of the one call its saga has outstanding; PROCESS_PAYMENT is
\* in the ledger only after a COMPLETED CREATE_ORDER and START_SHIPPING only
\* after a COMPLETED PROCESS_PAYMENT.
After(steps, name, before) ==
    \A i \in 1..Len(steps) :
        steps[i].Name = name =>
            \E j \in 1..(i - 1) :
                /\ steps[j].Name = before
                /\ steps[j].Status = TransactionStatusCompleted

C20_StrictlySequential ==
    \A t \in DOMAIN tasks :
        LET steps == Ledger(t)
            pending == {i \in 1..Len(steps) :
                          steps[i].Status = TransactionStatusPending}
        IN  /\ Cardinality(pending) <= 1
            /\ pending \subseteq {Len(steps)}
            /\ pending # {} <=> tasks[t].pc.at \in {"Post", "Return", "updateStepStatus"}
            /\ tasks[t].pc.at \in {"Return", "updateStepStatus"} =>
                  /\ Len(tasks[t].invoked) = Len(steps)
                  /\ steps[Len(steps)].Name = StepName(Callee(tasks[t].pc.site))
            /\ tasks[t].pc.at \notin {"Return", "updateStepStatus"} =>
                  tasks[t].reply = NoReply
            /\ After(steps, "PROCESS_PAYMENT", "CREATE_ORDER")
            /\ After(steps, "START_SHIPPING", "PROCESS_PAYMENT")

\* The shipping call of a saga is outstanding.
C20_Witness ==
    \E t \in DOMAIN tasks :
        /\ At(t, {"startShipping"}, "Return")
        /\ Len(Ledger(t)) = 3

\* C21: in every ledger, CANCEL_ORDER comes after a COMPLETED CREATE_ORDER and
\* REFUND_PAYMENT after a COMPLETED PROCESS_PAYMENT, every compensating step
\* comes after a FAILED forward step, and REFUND_PAYMENT comes before
\* CANCEL_ORDER when both are there (the reverse of their forward steps).
ForwardSteps == {StepName(fn) : fn \in ForwardFns}

CompensatingSteps == {StepName(fn) : fn \in CompensationFns \cup {"cancelShipping"}}

C21_CompensationOrder ==
    \A t \in DOMAIN transactions :
        LET steps == Ledger(t)
        IN  /\ After(steps, "CANCEL_ORDER", "CREATE_ORDER")
            /\ After(steps, "REFUND_PAYMENT", "PROCESS_PAYMENT")
            /\ \A i \in 1..Len(steps) :
                  steps[i].Name \in CompensatingSteps =>
                      \E j \in 1..(i - 1) :
                          /\ steps[j].Name \in ForwardSteps
                          /\ steps[j].Status = TransactionStatusFailed
            /\ \A i, k \in 1..Len(steps) :
                  (steps[i].Name = "CANCEL_ORDER" /\ steps[k].Name = "REFUND_PAYMENT")
                      => k < i

\* A saga is cancelling its order after its refund, not yet done.
C21_Witness ==
    \E t \in DOMAIN tasks :
        /\ At(t, {"cancelOrder"}, "Return")
        /\ Len(Ledger(t)) = 5
        /\ Ledger(t)[4].Name = "REFUND_PAYMENT"

\* C22: a saga whose participant call is to be made or is outstanding does not
\* hold the lock, and whoever holds the lock can release it by its next step
\* without waiting for anything; so whenever the lock is free the start of a
\* saga and a status request can take it, whatever calls are outstanding.
CanRelease ==
    \/ \E t \in DOMAIN tasks :
          /\ mu = Holder(t)
          /\ ENABLED (AddStep(t) \/ UpdateStepStatus(t) \/ SetOrderID(t)
                        \/ UpdateTransactionStatus(t))
    \/ \E req \in Requests : mu = HandlerHolder(req) /\ ENABLED CreateOrderSaga(req)
    \/ \E id \in QueryIDs : mu = StatusHolder(id) /\ ENABLED TransactionStatusGet

C22_NoLockAcrossCalls ==
    /\ \A t \in DOMAIN tasks :
          tasks[t].pc.at \in {"Post", "Return"} => mu # Holder(t)
    /\ mu # Free => CanRelease
    /\ (mu = Free /\ statusReq.at = "idle") =>
          \A id \in TransactionIDs : ENABLED TransactionStatusLock(id)
    /\ (mu = Free /\ nextID <= MaxSagas) =>
          \E req \in Requests : ENABLED CreateOrderSagaLock(req)
    /\ mu = Free =>
          \A t \in DOMAIN tasks :
              tasks[t].pc.at = "Lock" =>
                  ENABLED (AddStepLock(t) \/ SetOrderIDLock(t)
                           \/ UpdateTransactionStatusLock(t))

\* A status request holds the lock while one saga has a call outstanding and
\* another has ended.
C22_Witness ==
    /\ \E id \in QueryIDs : mu = StatusHolder(id)
    /\ \E t, u \in DOMAIN tasks :
          /\ tasks[t].pc.at = "Return"
          /\ Done(u)

\* C23: every change of a ledger appends one PENDING step of a name the ledger
\* does not have, or concludes its one open step, the last; a concluded step is
\* never written again; no name is twice in a ledger and no participant
\* operation is invoked twice by a saga.
NoRepeats(seq) ==
    \A i, j \in 1..Len(seq) : seq[i] = seq[j] => i = j

Open(step) ==
    step.Status = TransactionStatusPending /\ step.EndedAt = TimeZero

C23_LedgerAppendOnly ==
    [][\A t \in DOMAIN transactions :
          LET old == transactions[t].Steps
              new == transactions'[t].Steps
          IN  /\ \/ new = old
                 \/ /\ Len(new) = Len(old) + 1
                    /\ SubSeq(new, 1, Len(old)) = old
                    /\ Open(new[Len(new)])
                    /\ new[Len(new)].StartedAt = TimeNow
                    /\ ~Mentions(Names(old), new[Len(new)].Name)
                 \/ /\ Len(new) = Len(old) /\ Len(old) > 0
                    /\ SubSeq(new, 1, Len(old) - 1) = SubSeq(old, 1, Len(old) - 1)
                    /\ Open(old[Len(old)])
                    /\ Concluded(new[Len(new)])
                    /\ new[Len(new)].Name = old[Len(old)].Name
                    /\ new[Len(new)].StartedAt = old[Len(old)].StartedAt
              /\ NoRepeats(Names(new))
              /\ NoRepeats(tasks'[t].invoked)]_vars

\* The last step of a five-step ledger is concluded.
C23_Witness ==
    \E t \in DOMAIN tasks :
        /\ Len(Ledger(t)) = 5
        /\ Concluded(Ledger(t)[5])
        /\ ~Done(t)

\* C24: a call of updateStepStatus concludes the most recent step of that name
\* that has no end timestamp, and leaves the store as it is when the transaction
\* is absent or has no such step; so it never writes a concluded step, also in
\* a ledger with several steps of one name.
MostRecentOpen(steps, stepName) ==
    LET open == {i \in 1..Len(steps) : /\ steps[i].Name = stepName
                                       /\ steps[i].EndedAt = TimeZero}
    IN  IF open = {} THEN 0
        ELSE CHOOSE i \in open : \A j \in open : j <= i

EndStepContract(txs, args) ==
    IF args.transactionID \notin DOMAIN txs THEN txs
    ELSE LET i == MostRecentOpen(txs[args.transactionID].Steps, args.stepName)
         IN  IF i = 0 THEN txs
             ELSE [txs EXCEPT ![args.transactionID].Steps[i] =
                     [@ EXCEPT !.Status = IF args.success
                                          THEN TransactionStatusCompleted
                                          ELSE TransactionStatusFailed,
                               !.Error = IF args.success THEN @ ELSE args.errorMsg,
                               !.EndedAt = TimeNow]]

Calls(t) ==
    /\ t \in DOMAIN tasks
    /\ Len(tasks'[t].invoked) > Len(tasks[t].invoked)
    /\ Callee(tasks[t].pc.site) # "createOrder"

C25_OrderIdSetOnce ==
    [][\A t \in DOMAIN transactions' :
          LET tx == transactions'[t]
              steps == tx.Steps
          IN  /\ tx.OrderID # EmptyStr =>
                    /\ Len(steps) >= 1
                    /\ steps[1].Name = "CREATE_ORDER"
                    /\ steps[1].Status = TransactionStatusCompleted
                    /\ tx.OrderID = tasks'[t].orderID
                    /\ \E k \in 1..Len(orders') :
                          /\ orders'[k].ID = tx.OrderID
                          /\ orders'[k].CustomerID = tx.CustomerID
              /\ (Len(steps) >= 1 /\ steps[1].Status = TransactionStatusFailed)
                    => tx.OrderID = EmptyStr
              /\ Mentions(Names(steps), "PROCESS_PAYMENT") => tx.OrderID # EmptyStr
              /\ (t \in DOMAIN transactions /\ transactions[t].OrderID # EmptyStr)
                    => tx.OrderID = transactions[t].OrderID
              /\ Calls(t) =>
                    /\ tx.OrderID # EmptyStr
                    /\ tasks[t].orderID = tx.OrderID
                    /\ Len(payments') > Len(payments)
                          => payments'[Len(payments')].OrderID = tx.OrderID
                    /\ Len(shippings') > Len(shippings)
                          => shippings'[Len(shippings')].OrderID = tx.OrderID]_vars

\* The saga that got the second order has its refund call outstanding.
C25_Witness ==
    \E t \in DOMAIN tasks :
        /\ At(t, {"refundPayment"}, "Return")
        /\ transactions[t].OrderID = OrdID(2)

\* C26: when a Transaction is FAILED and every compensating step of its ledger
\* is COMPLETED, the order of its order id is CANCELLED, no payment of that
\* order is SUCCESS and no shipping of that order is other than CANCELLED.
C26_NoLiveEffects ==
    \A t \in DOMAIN transactions :
        (/\ transactions[t].Status = TransactionStatusFailed
         /\ \A i \in 1..Len(Ledger(t)) :
               Ledger(t)[i].Name \in CompensatingSteps
                   => Ledger(t)[i].Status = TransactionStatusCompleted)
        => /\ \A k \in 1..Len(orders) :
                 orders[k].ID = transactions[t].OrderID
                     => orders[k].Status = OrderStatusCancelled
           /\ \A k \in 1..Len(payments) :
                 payments[k].OrderID = transactions[t].OrderID
                     => payments[k].Status # PaymentStatusSuccess
           /\ ~HoldsShipping(transactions[t].OrderID)

\* C27: when a Transaction is COMPLETED, its order id is that of one order of
\* the Order service, not CANCELLED; there is one payment of that order and it
\* is SUCCESS; there is one shipping of that order and it is not CANCELLED; and
\* its ledger has no CANCEL_ORDER, REFUND_PAYMENT or CANCEL_SHIPPING step.
Of(records, orderID) == {k \in 1..Len(records) : records[k].OrderID = orderID}

C27_CompletedNotCompensated ==
    \A t \in DOMAIN transactions :
        transactions[t].Status = TransactionStatusCompleted =>
            LET orderID == transactions[t].OrderID
                held == {k \in 1..Len(orders) : orders[k].ID = orderID}
            IN  /\ Cardinality(held) = 1
                /\ \A k \in held : orders[k].Status # OrderStatusCancelled
                /\ Cardinality(Of(payments, orderID)) = 1
                /\ \A k \in Of(payments, orderID) :
                      payments[k].Status = PaymentStatusSuccess
                /\ Cardinality(Of(shippings, orderID)) = 1
                /\ \A k \in Of(shippings, orderID) :
                      shippings[k].Status # ShippingStatusCancelled
                /\ \A i \in 1..Len(Ledger(t)) :
                      Ledger(t)[i].Name \notin CompensatingSteps

\* A saga is COMPLETED while the other has refunded its payment and cancelled
\* its order.
C27_Witness ==
    \E t, u \in DOMAIN transactions :
        /\ transactions[t].Status = TransactionStatusCompleted
        /\ transactions[u].Status = TransactionStatusFailed
        /\ \E k \in 1..Len(payments) : payments[k].Status = PaymentStatusRefunded
        /\ \E k \in 1..Len(orders) : orders[k].Status = OrderStatusCancelled

=============================================================================
